---- MODULE Spec2Model ----
(***************************************************************************)
(* egui_custom_frame: the hit-testing geometry and the viewport commands   *)
(* of CustomFrame::show (src/src/lib.rs), one call of show per UI frame.   *)
(*                                                                         *)
(* Coordinates are f32 in the source.  They are modelled by integers       *)
(* (exact in f32 below 2^24) together with the two extreme finite values   *)
(* f32::MAX and f32::MIN, which absorb the addition of a small value.      *)
(***************************************************************************)
EXTENDS Integers, Sequences, FiniteSets, TLC

\* ------------------------------------------------------------------------
\* Bounds of the model: the pointer grid of the small window.
MaxX == 7
MaxY == 6

\* ------------------------------------------------------------------------
\* f32
F32_MAX == 1000000
F32_MIN == -F32_MAX

Huge(a) == a >= F32_MAX \/ a <= F32_MIN

\* f32 addition: small integers add exactly, f32::MAX + 20.0 rounds to f32::MAX
FAdd(a, b) ==
  IF Huge(a) /\ ~Huge(b) THEN a
  ELSE IF Huge(b) /\ ~Huge(a) THEN b
  ELSE a + b

FSub(a, b) == FAdd(a, -b)

FMax(a, b) == IF a >= b THEN a ELSE b
FMin(a, b) == IF a <= b THEN a ELSE b

\* ------------------------------------------------------------------------
\* egui geometry, as used by show
Pos2(x, y) == [x |-> x, y |-> y]
Vec2(x, y) == [x |-> x, y |-> y]
RectFromMinMax(mn, mx) == [min |-> mn, max |-> mx]
MarginSame(m) == [left |-> m, right |-> m, top |-> m, bottom |-> m]

\* Rect::from_min_size(Pos2::ZERO, size)
FromMinSize(mn, size) ==
  RectFromMinMax(mn, Pos2(FAdd(mn.x, size.x), FAdd(mn.y, size.y)))

\* Rect::shrink(amnt)
Shrink(r, amnt) ==
  RectFromMinMax(Pos2(FAdd(r.min.x, amnt), FAdd(r.min.y, amnt)),
                 Pos2(FSub(r.max.x, amnt), FSub(r.max.y, amnt)))

\* Rect - Margin
SubMargin(r, m) ==
  RectFromMinMax(Pos2(FAdd(r.min.x, m.left), FAdd(r.min.y, m.top)),
                 Pos2(FSub(r.max.x, m.right), FSub(r.max.y, m.bottom)))

\* Rect::translate(amnt)
Translate(r, v) ==
  RectFromMinMax(Pos2(FAdd(r.min.x, v.x), FAdd(r.min.y, v.y)),
                 Pos2(FAdd(r.max.x, v.x), FAdd(r.max.y, v.y)))

\* Rect::intersect(other)
Intersect(a, b) ==
  RectFromMinMax(Pos2(FMax(a.min.x, b.min.x), FMax(a.min.y, b.min.y)),
                 Pos2(FMin(a.max.x, b.max.x), FMin(a.max.y, b.max.y)))

\* Rect::contains(p): closed on all four edges
Contains(r, p) ==
  /\ r.min.x <= p.x /\ p.x <= r.max.x
  /\ r.min.y <= p.y /\ p.y <= r.max.y

\* ------------------------------------------------------------------------
\* CustomFrame
ShadowNONE == [blur |-> 0, spread |-> 0]
RoundingZERO == 0

DefaultFrame ==
  [ sizebox      |-> MarginSame(4),
    caption      |-> RectFromMinMax(Pos2(4, 4), Pos2(F32_MAX, 44)),
    inner_margin |-> MarginSame(10),
    rounding     |-> 10,
    shadow       |-> [blur |-> 18, spread |-> 2] ]

\* The styles the builder methods are called with
SizeboxChoices ==
  { MarginSame(4), MarginSame(1), MarginSame(-1),
    [left |-> 2, right |-> 1, top |-> 0, bottom |-> 1] }
CaptionChoices ==
  { RectFromMinMax(Pos2(4, 4), Pos2(F32_MAX, 44)),
    RectFromMinMax(Pos2(0, 0), Pos2(F32_MAX, F32_MAX)),
    RectFromMinMax(Pos2(1, 1), Pos2(4, 2)) }
RoundingChoices == {10, 3}
ShadowChoices ==
  { [blur |-> 18, spread |-> 2], [blur |-> 0, spread |-> 0], [blur |-> 1, spread |-> 0] }

\* The host: clip sizes of the panel, pointer positions, interaction events
ClipSizes == { Vec2(320, 120), Vec2(6, 5) }
PtrXs == (-1 .. MaxX) \cup {21, 25}
PtrYs == (-1 .. MaxY) \cup {25, 60}
NoPointer == [some |-> FALSE, x |-> 0, y |-> 0]
Pointers == {NoPointer} \cup { [some |-> TRUE, x |-> x, y |-> y] : x \in PtrXs, y \in PtrYs }
\* a drag that starts in this frame is also a drag in progress
Events ==
  { e \in [drag_started : BOOLEAN, dragged : BOOLEAN, double_clicked : BOOLEAN] :
      e.drag_started => e.dragged }

SenseDrag == [click |-> FALSE, drag |-> TRUE]
SenseClickAndDrag == [click |-> TRUE, drag |-> TRUE]

NoResponse ==
  [some |-> FALSE, id |-> "", drag_started |-> FALSE, dragged |-> FALSE,
   double_clicked |-> FALSE]

ZeroRect == RectFromMinMax(Pos2(0, 0), Pos2(0, 0))

IdleFrame ==
  [ shown |-> FALSE, is_maximized |-> FALSE, shadow_width |-> 0,
    panel_frame |-> [rounding |-> 0, outer_margin |-> 0,
                     inner_margin |-> MarginSame(0), shadow |-> ShadowNONE],
    view_rect |-> ZeroRect, sizebox_inner |-> ZeroRect, caption_rect |-> ZeroRect,
    has_pos |-> FALSE, pos |-> Pos2(0, 0), events |-> [drag_started |-> FALSE,
      dragged |-> FALSE, double_clicked |-> FALSE],
    sizebox_response |-> NoResponse, caption_response |-> NoResponse,
    icons |-> << >>, cmds |-> << >> ]

VARIABLES
  self,       \* the CustomFrame the application owns
  maximized,  \* host: viewport().maximized.unwrap_or(false)
  clip,       \* host: size of the panel's clip rectangle
  frame       \* what the current call of show computed, set and sent

vars == << self, maximized, clip, frame >>

Init ==
  /\ self = DefaultFrame
  /\ maximized = FALSE
  /\ clip = Vec2(320, 120)
  /\ frame = IdleFrame

\* ------------------------------------------------------------------------
\* The builder methods: each replaces one field of the frame
sizebox(m) ==
  /\ frame = IdleFrame
  /\ self' = [self EXCEPT !.sizebox = m]
  /\ UNCHANGED << maximized, clip, frame >>

caption(r) ==
  /\ frame = IdleFrame
  /\ self' = [self EXCEPT !.caption = r]
  /\ UNCHANGED << maximized, clip, frame >>

rounding(r) ==
  /\ frame = IdleFrame
  /\ self' = [self EXCEPT !.rounding = r]
  /\ UNCHANGED << maximized, clip, frame >>

shadow(s) ==
  /\ frame = IdleFrame
  /\ self' = [self EXCEPT !.shadow = s]
  /\ UNCHANGED << maximized, clip, frame >>

\* ------------------------------------------------------------------------
\* show, step by step

\* let shadow_width = if is_maximized { 0.0 } else { blur + spread }
ShadowWidth(is_maximized, sh) ==
  IF is_maximized THEN 0 ELSE FAdd(sh.blur, sh.spread)

\* let panel_frame = egui::Frame { .. }
PanelFrame(is_maximized, cf, shadow_width) ==
  [ rounding     |-> IF is_maximized THEN RoundingZERO ELSE cf.rounding,
    outer_margin |-> shadow_width,
    inner_margin |-> cf.inner_margin,
    shadow       |-> IF is_maximized THEN ShadowNONE ELSE cf.shadow ]

\* mutant: the shadow gutter is not taken off the clip rectangle
ViewRectNoShrink(clip_size, shadow_width) ==
  FromMinSize(Pos2(0, 0), Vec2(clip_size.x, clip_size.y))

\* view_rect: the clip rectangle moved to the origin and shrunk by the shadow
ViewRect(clip_size, shadow_width) ==
  Shrink(FromMinSize(Pos2(0, 0), Vec2(clip_size.x, clip_size.y)), shadow_width)

\* let sizebox_inner = view_rect - self.sizebox
SizeboxInner(view_rect, sb) == SubMargin(view_rect, sb)

\* mutant: the translated caption is not intersected with sizebox_inner
CaptionRectNoIntersect(cap, shadow_width, sizebox_inner) ==
  Translate(cap, Vec2(shadow_width, shadow_width))

\* mutant: the caption is intersected without being translated
CaptionRectNoTranslate(cap, shadow_width, sizebox_inner) ==
  Intersect(cap, sizebox_inner)

\* let caption_rect = self.caption.translate(..).intersect(sizebox_inner)
CaptionRect(cap, shadow_width, sizebox_inner) ==
  Intersect(Translate(cap, Vec2(shadow_width, shadow_width)), sizebox_inner)

\* interact_pos().unwrap_or(Pos2::new(f32::MIN, f32::MIN))
InteractPos(ptr) ==
  IF ptr.some THEN Pos2(ptr.x, ptr.y) ELSE Pos2(F32_MIN, F32_MIN)

\* ui.interact(rect, id, sense): the response carries the events of this frame
\* that the region senses
Interact(id, sense, ev) ==
  [ some           |-> TRUE,
    id             |-> id,
    drag_started   |-> sense.drag /\ ev.drag_started,
    dragged        |-> sense.drag /\ ev.dragged,
    double_clicked |-> sense.click /\ ev.double_clicked ]

\* mutant: the resize region is registered on a maximized window too
SizeboxResponseWhenMaximized(view_rect, sizebox_inner, pos, is_maximized, ev) ==
  IF Contains(view_rect, pos) /\ ~Contains(sizebox_inner, pos)
    THEN Interact("custom_frame_sizebox", SenseDrag, ev)
    ELSE NoResponse

\* mutant: the resize region is registered over the interior too
SizeboxResponseNoInner(view_rect, sizebox_inner, pos, is_maximized, ev) ==
  IF Contains(view_rect, pos) /\ ~is_maximized
    THEN Interact("custom_frame_sizebox", SenseDrag, ev)
    ELSE NoResponse

\* create sizebox interact area
SizeboxResponse(view_rect, sizebox_inner, pos, is_maximized, ev) ==
  IF Contains(view_rect, pos) /\ ~Contains(sizebox_inner, pos) /\ ~is_maximized
    THEN Interact("custom_frame_sizebox", SenseDrag, ev)
    ELSE NoResponse

\* create caption interact area
CaptionResponse(caption_rect, pos, ev) ==
  IF Contains(caption_rect, pos)
    THEN Interact("custom_frame_caption", SenseClickAndDrag, ev)
    ELSE NoResponse

Hit(icon, direction) == [some |-> TRUE, icon |-> icon, direction |-> direction]
NoHit == [some |-> FALSE, icon |-> "", direction |-> ""]

\* mutant: y is compared with the bottom edge for north and the top edge for south
ResizeBranchTopBottomSwapped(pos, sizebox_inner) ==
  IF pos.x < sizebox_inner.min.x THEN
    IF pos.y < sizebox_inner.max.y THEN Hit("ResizeNorthWest", "NorthWest")
    ELSE IF pos.y > sizebox_inner.min.y THEN Hit("ResizeSouthWest", "SouthWest")
    ELSE Hit("ResizeWest", "West")
  ELSE IF pos.x > sizebox_inner.max.x THEN
    IF pos.y < sizebox_inner.max.y THEN Hit("ResizeNorthEast", "NorthEast")
    ELSE IF pos.y > sizebox_inner.min.y THEN Hit("ResizeSouthEast", "SouthEast")
    ELSE Hit("ResizeEast", "East")
  ELSE
    IF pos.y < sizebox_inner.max.y THEN Hit("ResizeNorth", "North")
    ELSE IF pos.y > sizebox_inner.min.y THEN Hit("ResizeSouth", "South")
    ELSE NoHit

\* mutant: the south-west branch, copied from the north-west one, keeps its
\* resize direction
ResizeBranchCopiedDirection(pos, sizebox_inner) ==
  IF pos.x < sizebox_inner.min.x THEN
    IF pos.y < sizebox_inner.min.y THEN Hit("ResizeNorthWest", "NorthWest")
    ELSE IF pos.y > sizebox_inner.max.y THEN Hit("ResizeSouthWest", "NorthWest")
    ELSE Hit("ResizeWest", "West")
  ELSE IF pos.x > sizebox_inner.max.x THEN
    IF pos.y < sizebox_inner.min.y THEN Hit("ResizeNorthEast", "NorthEast")
    ELSE IF pos.y > sizebox_inner.max.y THEN Hit("ResizeSouthEast", "SouthEast")
    ELSE Hit("ResizeEast", "East")
  ELSE
    IF pos.y < sizebox_inner.min.y THEN Hit("ResizeNorth", "North")
    ELSE IF pos.y > sizebox_inner.max.y THEN Hit("ResizeSouth", "South")
    ELSE NoHit

\* the if / else-if chain of "produce resizing": the cursor icon and the resize
\* direction of the branch the pointer falls in
ResizeBranch(pos, sizebox_inner) ==
  IF pos.x < sizebox_inner.min.x THEN
    IF pos.y < sizebox_inner.min.y THEN Hit("ResizeNorthWest", "NorthWest")
    ELSE IF pos.y > sizebox_inner.max.y THEN Hit("ResizeSouthWest", "SouthWest")
    ELSE Hit("ResizeWest", "West")
  ELSE IF pos.x > sizebox_inner.max.x THEN
    IF pos.y < sizebox_inner.min.y THEN Hit("ResizeNorthEast", "NorthEast")
    ELSE IF pos.y > sizebox_inner.max.y THEN Hit("ResizeSouthEast", "SouthEast")
    ELSE Hit("ResizeEast", "East")
  ELSE
    IF pos.y < sizebox_inner.min.y THEN Hit("ResizeNorth", "North")
    ELSE IF pos.y > sizebox_inner.max.y THEN Hit("ResizeSouth", "South")
    ELSE NoHit

BeginResize(direction) == [type |-> "BeginResize", direction |-> direction, maximized |-> FALSE]
StartDrag == [type |-> "StartDrag", direction |-> "", maximized |-> FALSE]
Maximized(b) == [type |-> "Maximized", direction |-> "", maximized |-> b]

\* mutant: BeginResize is sent while the drag goes on, not only when it starts
ProduceResizingWhileDragged(sizebox_response, pos, sizebox_inner) ==
  IF sizebox_response.some THEN
    LET drag == sizebox_response.dragged
        hit  == ResizeBranch(pos, sizebox_inner)
    IN  IF hit.some
          THEN [ icons |-> << hit.icon >>,
                 cmds  |-> IF drag THEN << BeginResize(hit.direction) >> ELSE << >> ]
          ELSE [ icons |-> << >>, cmds |-> << >> ]
  ELSE [ icons |-> << >>, cmds |-> << >> ]

\* produce resizing
ProduceResizing(sizebox_response, pos, sizebox_inner) ==
  IF sizebox_response.some THEN
    LET drag == sizebox_response.drag_started
        hit  == ResizeBranch(pos, sizebox_inner)
    IN  IF hit.some
          THEN [ icons |-> << hit.icon >>,
                 cmds  |-> IF drag THEN << BeginResize(hit.direction) >> ELSE << >> ]
          ELSE [ icons |-> << >>, cmds |-> << >> ]
  ELSE [ icons |-> << >>, cmds |-> << >> ]

\* mutant: the double-click test is an else branch of the drag-start test
ProduceCaptionElseIf(caption_response, is_maximized) ==
  IF caption_response.some THEN
    IF caption_response.double_clicked THEN << Maximized(~is_maximized) >>
    ELSE IF caption_response.drag_started THEN << StartDrag >>
    ELSE << >>
  ELSE << >>

\* mutant: Maximized is sent with the current state, not its negation
ProduceCaptionNoNegation(caption_response, is_maximized) ==
  IF caption_response.some THEN
    (IF caption_response.drag_started THEN << StartDrag >> ELSE << >>)
    \o (IF caption_response.double_clicked THEN << Maximized(is_maximized) >> ELSE << >>)
  ELSE << >>

\* produce caption dragging and double clicking
ProduceCaption(caption_response, is_maximized) ==
  IF caption_response.some THEN
    (IF caption_response.drag_started THEN << StartDrag >> ELSE << >>)
    \o (IF caption_response.double_clicked THEN << Maximized(~is_maximized) >> ELSE << >>)
  ELSE << >>

\* One call of show: the host supplies the pointer and this frame's events
show(ptr, ev) ==
  /\ frame = IdleFrame
  /\ LET is_maximized     == maximized
         shadow_width     == ShadowWidth(is_maximized, self.shadow)
         panel_frame      == PanelFrame(is_maximized, self, shadow_width)
         view_rect        == ViewRect(clip, shadow_width)
         sizebox_inner    == SizeboxInner(view_rect, self.sizebox)
         caption_rect     == CaptionRect(self.caption, shadow_width, sizebox_inner)
         pos              == InteractPos(ptr)
         sizebox_response == SizeboxResponse(view_rect, sizebox_inner, pos, is_maximized, ev)
         caption_response == CaptionResponse(caption_rect, pos, ev)
         resizing         == ProduceResizing(sizebox_response, pos, sizebox_inner)
         captioning       == ProduceCaption(caption_response, is_maximized)
     IN  frame' =
           [ shown |-> TRUE, is_maximized |-> is_maximized,
             shadow_width |-> shadow_width, panel_frame |-> panel_frame,
             view_rect |-> view_rect, sizebox_inner |-> sizebox_inner,
             caption_rect |-> caption_rect,
             has_pos |-> ptr.some, pos |-> pos, events |-> ev,
             sizebox_response |-> sizebox_response,
             caption_response |-> caption_response,
             icons |-> resizing.icons,
             cmds |-> resizing.cmds \o captioning ]
  /\ UNCHANGED << self, maximized, clip >>

\* ------------------------------------------------------------------------
\* The host windowing backend: after the frame it carries out the viewport
\* commands show sent.  Maximized(b) sets the maximized state; a resize begun
\* by BeginResize may end with any clip size; StartDrag moves the window.
Sent(type) == { i \in 1 .. Len(frame.cmds) : frame.cmds[i].type = type }

HostEndFrame(size) ==
  /\ frame.shown
  /\ maximized' =
       IF Sent("Maximized") = {} THEN maximized
       ELSE frame.cmds[CHOOSE i \in Sent("Maximized") :
                         \A j \in Sent("Maximized") : j <= i].maximized
  /\ IF Sent("BeginResize") = {} THEN size = clip ELSE TRUE
  /\ clip' = size
  /\ frame' = IdleFrame
  /\ UNCHANGED self

Next ==
  \/ \E m \in SizeboxChoices : sizebox(m)
  \/ \E r \in CaptionChoices : caption(r)
  \/ \E r \in RoundingChoices : rounding(r)
  \/ \E s \in ShadowChoices : shadow(s)
  \/ \E ptr \in Pointers, ev \in Events : show(ptr, ev)
  \/ \E size \in ClipSizes : HostEndFrame(size)

Spec == Init /\ [][Next]_vars

\* ------------------------------------------------------------------------
\* Vocabulary of the properties, stated on the frame show has just produced

\* p lies in the closed rectangle r
Inside(r, p) ==
  r.min.x <= p.x /\ p.x <= r.max.x /\ r.min.y <= p.y /\ p.y <= r.max.y

\* viewRect: the clip-size rectangle at the origin shrunk by shadowWidth
SpecViewRect ==
  [ min |-> [x |-> frame.shadow_width, y |-> frame.shadow_width],
    max |-> [x |-> clip.x - frame.shadow_width, y |-> clip.y - frame.shadow_width] ]

\* coreRect: viewRect minus the sizebox
SpecCoreRect ==
  [ min |-> [x |-> SpecViewRect.min.x + self.sizebox.left,
             y |-> SpecViewRect.min.y + self.sizebox.top],
    max |-> [x |-> SpecViewRect.max.x - self.sizebox.right,
             y |-> SpecViewRect.max.y - self.sizebox.bottom] ]

\* one coordinate of the configured caption moved by shadowWidth; f32::MAX stays
Moved(c) == IF c = F32_MAX THEN F32_MAX ELSE c + frame.shadow_width

\* the configured caption rectangle translated by (shadowWidth, shadowWidth)
SpecTranslatedCaption ==
  [ min |-> [x |-> Moved(self.caption.min.x), y |-> Moved(self.caption.min.y)],
    max |-> [x |-> Moved(self.caption.max.x), y |-> Moved(self.caption.max.y)] ]

Count(type) == Cardinality(Sent(type))

ResizeIcons ==
  { "ResizeNorthWest", "ResizeNorth", "ResizeNorthEast", "ResizeWest",
    "ResizeEast", "ResizeSouthWest", "ResizeSouth", "ResizeSouthEast" }

ResizeRegistered == frame.sizebox_response.some
CaptionRegistered == frame.caption_response.some

\* the cursor icon of a resize direction
IconOf(direction) ==
  CASE direction = "NorthWest" -> "ResizeNorthWest"
    [] direction = "North"     -> "ResizeNorth"
    [] direction = "NorthEast" -> "ResizeNorthEast"
    [] direction = "West"      -> "ResizeWest"
    [] direction = "East"      -> "ResizeEast"
    [] direction = "SouthWest" -> "ResizeSouthWest"
    [] direction = "South"     -> "ResizeSouth"
    [] direction = "SouthEast" -> "ResizeSouthEast"
    [] OTHER                   -> "none"

\* the octant rule: x < left / x > right / neither, with y < top / y > bottom /
\* neither
OctantX(p, core) ==
  IF p.x < core.min.x THEN "West" ELSE IF p.x > core.max.x THEN "East" ELSE ""
OctantY(p, core) ==
  IF p.y < core.min.y THEN "North" ELSE IF p.y > core.max.y THEN "South" ELSE ""
OctantIcon(p, core) ==
  LET d == OctantY(p, core) \o OctantX(p, core)
  IN  IF d = "" THEN "none" ELSE IconOf(d)

\* ------------------------------------------------------------------------
\* C1: when the window is not maximized and the pointer is inside viewRect but
\* outside coreRect, show sets exactly one cursor icon, one of the 8 resize
\* icons, and it is the icon of the pointer's octant relative to coreRect.
C1_OctantIconSet ==
  ( /\ frame.shown /\ ~maximized
    /\ Inside(SpecViewRect, frame.pos)
    /\ ~Inside(SpecCoreRect, frame.pos) )
  => /\ Len(frame.icons) = 1
     /\ frame.icons[1] \in ResizeIcons
     /\ frame.icons[1] = OctantIcon(frame.pos, SpecCoreRect)

\* a frame with the pointer in the north-west corner of the ring
C1_Witness ==
  /\ frame.shown /\ ~maximized
  /\ Inside(SpecViewRect, frame.pos)
  /\ frame.pos.x < SpecCoreRect.min.x /\ frame.pos.y < SpecCoreRect.min.y
  /\ SpecCoreRect.min.x <= SpecCoreRect.max.x
  /\ frame.icons = << "ResizeNorthWest" >>

\* C2: with non-negative sizebox margins, a pointer strictly outside viewRect,
\* or no pointer at all, registers no region, sets no cursor icon and sends no
\* viewport command, whatever events the host reports.
C2_OutsideNothing ==
  ( /\ frame.shown
    /\ self.sizebox.left >= 0 /\ self.sizebox.right >= 0
    /\ self.sizebox.top >= 0 /\ self.sizebox.bottom >= 0
    /\ (~frame.has_pos \/ ~Inside(SpecViewRect, frame.pos)) )
  => /\ ~ResizeRegistered
     /\ ~CaptionRegistered
     /\ frame.icons = << >>
     /\ frame.cmds = << >>

\* a pointer outside the view, over where an unbounded caption would extend,
\* in a frame with a drag-start and a double-click
C2_Witness ==
  /\ frame.shown /\ frame.has_pos
  /\ self.sizebox = MarginSame(1)
  /\ self.caption.max.x = F32_MAX /\ self.caption.max.y = F32_MAX
  /\ SpecViewRect.min.x <= SpecViewRect.max.x
  /\ frame.pos.x > SpecViewRect.max.x /\ frame.pos.y > SpecViewRect.max.y
  /\ frame.events.drag_started /\ frame.events.double_clicked
  /\ frame.cmds = << >>

\* C3: while the host reports the window maximized, shadowWidth is 0, the
\* panel has rounding zero and no shadow, and the resize region is not
\* registered: no resize cursor icon, no BeginResize.
C3_MaximizedSuppresses ==
  (frame.shown /\ maximized)
  => /\ frame.shadow_width = 0
     /\ frame.panel_frame.outer_margin = 0
     /\ frame.panel_frame.rounding = 0
     /\ frame.panel_frame.shadow = [blur |-> 0, spread |-> 0]
     /\ ~ResizeRegistered
     /\ \A i \in 1 .. Len(frame.icons) : frame.icons[i] \notin ResizeIcons
     /\ Count("BeginResize") = 0

\* maximized, a styled frame, the pointer in the resize ring, a drag-start
C3_Witness ==
  /\ frame.shown /\ maximized
  /\ self.rounding > 0 /\ self.shadow.blur > 0
  /\ Inside(SpecViewRect, frame.pos) /\ ~Inside(SpecCoreRect, frame.pos)
  /\ frame.events.drag_started
  /\ frame.panel_frame.rounding = 0

\* C4 as stated: the computed caption rectangle is the configured one
\* translated by (shadowWidth, shadowWidth), and it lies within coreRect.
C4_Original ==
  frame.shown
  => /\ frame.caption_rect = SpecTranslatedCaption
     /\ Inside(frame.caption_rect, frame.pos) => Inside(SpecCoreRect, frame.pos)

\* C4 amended: the computed caption rectangle is the intersection of coreRect
\* with the configured rectangle translated by (shadowWidth, shadowWidth):
\* the pointer is in it exactly when it is in coreRect and in the translated rectangle,
\* and it equals the translated rectangle when that one lies within coreRect.
C4_Amended ==
  frame.shown
  => LET t == SpecTranslatedCaption
         c == SpecCoreRect
         r == frame.caption_rect
     IN  /\ r.min.x = (IF t.min.x >= c.min.x THEN t.min.x ELSE c.min.x)
         /\ r.min.y = (IF t.min.y >= c.min.y THEN t.min.y ELSE c.min.y)
         /\ r.max.x = (IF t.max.x <= c.max.x THEN t.max.x ELSE c.max.x)
         /\ r.max.y = (IF t.max.y <= c.max.y THEN t.max.y ELSE c.max.y)
         /\ Inside(r, frame.pos) <=> (Inside(c, frame.pos) /\ Inside(t, frame.pos))
         /\ (Inside(c, t.min) /\ Inside(c, t.max)) => r = t

\* the default caption under a shadow: translated to (24,24)-(MAX,64) and cut
\* at coreRect's right edge
C4_Witness ==
  /\ frame.shown
  /\ frame.shadow_width > 0
  /\ self.caption.max.x = F32_MAX
  /\ frame.caption_rect.min.x = self.caption.min.x + frame.shadow_width
  /\ frame.caption_rect.max.x = SpecCoreRect.max.x
  /\ frame.caption_rect.max.x < F32_MAX
  /\ frame.caption_rect.min.x <= frame.caption_rect.max.x

\* C5: a drag-start with the pointer inside the computed caption rectangle
\* sends exactly one StartDrag and no BeginResize, also when the configured
\* caption overlaps the resize ring.
C5_CaptionDragStart ==
  (frame.shown /\ frame.events.drag_started /\ Inside(frame.caption_rect, frame.pos))
  => /\ Count("StartDrag") = 1
     /\ Count("BeginResize") = 0

\* the whole-window caption of the example, a drag-start (with a double-click
\* in the same frame) on the caption
C5_Witness ==
  /\ frame.shown /\ frame.events.drag_started /\ frame.events.double_clicked
  /\ self.caption = [min |-> [x |-> 0, y |-> 0], max |-> [x |-> F32_MAX, y |-> F32_MAX]]
  /\ self.sizebox.left > 0
  /\ Inside(frame.caption_rect, frame.pos)
  /\ Count("StartDrag") = 1

\* C6: a double-click with the pointer inside the computed caption rectangle
\* sends exactly one Maximized(b), b the negation of the maximized state of
\* that call; the host applying it flips the maximized state.
C6_StateToggle ==
  (frame.shown /\ frame.events.double_clicked /\ Inside(frame.caption_rect, frame.pos))
  => /\ Count("Maximized") = 1
     /\ \A i \in Sent("Maximized") : frame.cmds[i].maximized = ~maximized

C6_HostFlips ==
  (frame.shown /\ frame.events.double_clicked /\ Inside(frame.caption_rect, frame.pos))
  => maximized' = ~maximized

\* C6: in every frame the double-click on the caption sends the one
\* Maximized(~maximized), and the host's step after such a frame flips maximized.
C6_DoubleClickToggles == [] C6_StateToggle /\ [][C6_HostFlips]_vars

\* a double-click on the caption of a maximized window: the second toggle
C6_Witness ==
  /\ frame.shown /\ maximized /\ frame.events.double_clicked
  /\ Inside(frame.caption_rect, frame.pos)
  /\ Count("Maximized") = 1
  /\ \E i \in Sent("Maximized") : frame.cmds[i].maximized = FALSE

\* what must have been reported for each command that was sent
C7_OnlyOnEvent ==
  /\ Count("BeginResize") > 0 => (ResizeRegistered /\ frame.events.drag_started)
  /\ Count("StartDrag") > 0 => (CaptionRegistered /\ frame.events.drag_started)
  /\ Count("Maximized") > 0 => (CaptionRegistered /\ frame.events.double_clicked)
  /\ \A i \in 1 .. Len(frame.cmds) :
       frame.cmds[i].type \in {"BeginResize", "StartDrag", "Maximized"}

C8_DefaultStyle ==
  /\ self.sizebox = [left |-> 4, right |-> 4, top |-> 4, bottom |-> 4]
  /\ self.caption = [min |-> [x |-> 4, y |-> 4], max |-> [x |-> F32_MAX, y |-> 44]]
  /\ self.shadow = [blur |-> 18, spread |-> 2]
  /\ clip = [x |-> 320, y |-> 120]
  /\ ~maximized

C8_Scenario ==
  (frame.shown /\ C8_DefaultStyle)
  => /\ frame.shadow_width = 20
     /\ frame.pos = [x |-> 1, y |-> 1]
          => ( /\ ~ResizeRegistered /\ ~CaptionRegistered
               /\ frame.icons = << >> /\ frame.cmds = << >> )
     /\ frame.pos = [x |-> 25, y |-> 25]
          => (CaptionRegistered /\ ~ResizeRegistered)
     /\ frame.pos = [x |-> 21, y |-> 60]
          => ( /\ ResizeRegistered
               /\ frame.icons = << "ResizeWest" >>
               /\ frame.events.drag_started
                    => \E i \in Sent("BeginResize") : frame.cmds[i].direction = "West" )

\* the drag-start at (21,60)
C8_Witness ==
  /\ frame.shown /\ C8_DefaultStyle
  /\ frame.pos = [x |-> 21, y |-> 60]
  /\ frame.events.drag_started
  /\ Count("BeginResize") = 1

\* C9: a BeginResize(d) is sent only in a frame where the resize region is
\* registered and a drag-start (not just a drag in progress) is reported, and d
\* is the direction of the cursor icon set in that frame; conversely a
\* registered resize region with a resolved direction and a drag-start sends
\* BeginResize for that direction.
C9_ResizeMatchesIcon ==
  frame.shown
  => /\ \A i \in Sent("BeginResize") :
          /\ ResizeRegistered
          /\ frame.events.drag_started
          /\ frame.icons = << IconOf(frame.cmds[i].direction) >>
          /\ frame.icons[1] \in ResizeIcons
     /\ (ResizeRegistered /\ frame.icons # << >> /\ frame.events.drag_started)
          => \E i \in Sent("BeginResize") :
               IconOf(frame.cmds[i].direction) = frame.icons[1]
     /\ (ResizeRegistered /\ ~frame.events.drag_started) => Count("BeginResize") = 0

\* a drag-start in the south-west corner of the ring
C9_Witness ==
  /\ frame.shown /\ ResizeRegistered /\ frame.events.drag_started
  /\ frame.icons = << "ResizeSouthWest" >>
  /\ \E i \in Sent("BeginResize") : frame.cmds[i].direction = "SouthWest"

\* C10: no frame registers both the resize region and the caption region, so
\* no frame sends both a BeginResize and a StartDrag or Maximized.
C10_RegionsExclusive ==
  frame.shown
  => /\ ~(ResizeRegistered /\ CaptionRegistered)
     /\ ~(Count("BeginResize") > 0 /\ Count("StartDrag") + Count("Maximized") > 0)

\* an unbounded caption and a sizebox wider than the view: the pointer is in
\* the view, the resize region is registered and a drag-start is reported
C10_Witness ==
  /\ frame.shown
  /\ self.caption.max.x = F32_MAX /\ self.caption.max.y = F32_MAX
  /\ SpecViewRect.min.x <= SpecViewRect.max.x
  /\ SpecCoreRect.min.x > SpecCoreRect.max.x
  /\ ResizeRegistered /\ ~CaptionRegistered
  /\ frame.events.drag_started /\ frame.events.double_clicked
  /\ Count("BeginResize") = 1

====
